---- MODULE Spec2Model ----
(***************************************************************************)
(* State-machine model of src/fmc/api.py: the FMC registry with its object *)
(* tables (FPObjectTable.names, an OrderedDict name -> id), the FPObject   *)
(* entities a caller holds, and the FMC server the registry talks to.      *)
(* Every operation is synchronous and single-threaded, so one action is    *)
(* one whole call of a constructor or method.                              *)
(***************************************************************************)
EXTENDS Integers, Sequences, FiniteSets, TLC

\* ------------------------------------------------------------------ bounds
MaxNames == 2       \* object names the callers use
MaxId == 2          \* identifiers the server hands out in one behaviour
MaxEnt == 2         \* FPObject variables the caller holds
MaxObj == 3         \* objects on the server when a table is built
MaxBatch == 2       \* names in one call of add_children
PageLimit == 2      \* items per listing page
MaxSwitch == 1      \* times an actor is set aside in the middle of _req

NAMES == <<"A", "B", "C", "D", "E">>
Names == {NAMES[i] : i \in 1..MaxNames}
Ids == 1..MaxId
Ents == 1..MaxEnt

\* -------------------------------------------------------------- taxonomy
\* The object types whose tables are followed: one group type, one of its
\* child types, and one type that no group type lists.
ObjTypes == {"networkgroups", "hosts", "securityzones"}

\* child_obj['type'].lower() + 's': Host -> hosts, NetworkGroup -> networkgroups
TableType(t) ==
    CASE t = "NetworkGroup" -> "networkgroups"
      [] t = "Host" -> "hosts"
      [] t = "SecurityZone" -> "securityzones"
      [] OTHER -> "s"

\* FMC.CHILD_OBJECT_TYPES: each group type with the types of its children, in
\* the order of the lists.
NETWORK_OBJECT_TYPES == <<"hosts", "networks", "ranges", "networkgroups">>
PORT_OBJECT_TYPES ==
    <<"icmpv4objects", "icmpv6objects", "protocolportobjects", "portobjectgroups">>
URL_OBJECT_TYPES == <<"urls", "urlgroups">>
VLAN_OBJECT_TYPES == <<"vlantags", "vlangrouptags">>
REALM_USER_OBJECT_TYPES == <<"realmusers", "realmusergroups">>

GROUP_OBJECT_TYPES ==
    {"networkgroups", "portobjectgroups", "urlgroups", "vlangrouptags", "realmusergroups"}

CHILD_OBJECT_TYPES ==
    [p \in GROUP_OBJECT_TYPES |->
        CASE p = "networkgroups" -> NETWORK_OBJECT_TYPES
          [] p = "portobjectgroups" -> PORT_OBJECT_TYPES
          [] p = "urlgroups" -> URL_OBJECT_TYPES
          [] p = "vlangrouptags" -> VLAN_OBJECT_TYPES
          [] p = "realmusergroups" -> REALM_USER_OBJECT_TYPES]

Elems(seq) == {seq[i] : i \in 1..Len(seq)}

\* FMC.OBJECT_TYPES
OBJECT_TYPES ==
    {"anyprotocolportobjects", "applicationcategories", "realms", "continents",
     "applicationfilters", "applicationproductivities", "ports", "tunneltags",
     "applicationrisks", "applications", "applicationtags", "applicationtypes",
     "countries", "variablesets", "endpointdevicetypes", "geolocations",
     "isesecuritygrouptags", "networkaddresses", "securitygrouptags",
     "siurlfeeds", "siurllists", "securityzones", "urlcategories"}
    \cup Elems(URL_OBJECT_TYPES) \cup Elems(VLAN_OBJECT_TYPES)
    \cup Elems(PORT_OBJECT_TYPES) \cup Elems(NETWORK_OBJECT_TYPES)
    \cup Elems(REALM_USER_OBJECT_TYPES)

\* FMC.RESOURCE_TYPES, FMC.POLICY_TYPES, FMC.RESOURCE_TREE
RESOURCE_TYPES ==
    {"object", "devices", "devicegroups", "policy",
     "assignment", "job", "audit", "deployment"}

POLICY_TYPES ==
    {"accesspolicies", "filepolicies", "intrusionpolicies", "snmpalerts", "syslogalerts"}

RESOURCE_TREE ==
    [r \in RESOURCE_TYPES |->
        CASE r = "object" -> OBJECT_TYPES
          [] r = "policy" -> POLICY_TYPES
          [] r = "devices" -> {"devicerecords"}
          [] r = "devicegroups" -> {"devicegrouprecords"}
          [] r = "assignment" -> {"policyassignments"}
          [] r = "audit" -> {"auditrecords"}
          [] r = "job" -> {"taskstatuses"}
          [] r = "deployment" -> {"deployabledevices", "deploymentrequests"}]

\* a test of the resource alone
validate_resource(resource, type) ==
    IF resource \notin RESOURCE_TYPES THEN "FMCError" ELSE ""

\* The test at the head of FPResourceTable.__init__ and of
\* get_all_resource_instances: the FMCError it raises, "" when it passes.
validate(resource, type) ==
    IF resource \notin RESOURCE_TYPES
    THEN "FMCError"
    ELSE IF type \notin RESOURCE_TREE[resource] THEN "FMCError" ELSE ""

\* FPObject.parent_type: the group type that lists this type among its
\* children, "None" when no group type does.
parent_type(type) ==
    IF \E ptype \in GROUP_OBJECT_TYPES : type \in Elems(CHILD_OBJECT_TYPES[ptype])
    THEN CHOOSE ptype \in GROUP_OBJECT_TYPES : type \in Elems(CHILD_OBJECT_TYPES[ptype])
    ELSE "None"

\* ------------------------------------------------------- JSON and requests
\* A record as the server renders it.  id = 0 is the empty response ('' / {}),
\* the value `len(resp)` tests, and also json = None of an unbound entity.
Empty == [id |-> 0, name |-> "", type |-> "", objects |-> <<>>]

len(resp) == IF resp.id = 0 THEN 0 ELSE 1

NoUrl == [type |-> "", oid |-> 0, offset |-> 0, expanded |-> FALSE]

\* self.url + API_PATH[resource] + type + '/' + oid ; also links.self of a record
ObjUrl(type, oid) == [type |-> type, oid |-> oid, offset |-> 0, expanded |-> FALSE]

\* self.url + API_PATH[resource] + type  (+ '?expanded=true', + offset of a page)
ListUrl(type, offset, expanded) ==
    [type |-> type, oid |-> 0, offset |-> offset, expanded |-> expanded]

Request(method, url, data) == [method |-> method, url |-> url, data |-> data]

\* --------------------------------------------------- OrderedDict (names)
\* names is a sequence of entries [name, id] in insertion order.
Keys(d) == {d[i].name : i \in 1..Len(d)}

\* d[k] for a key that is present
Get(d, k) == d[CHOOSE i \in 1..Len(d) : d[i].name = k].id

\* d[k] = v: a present key keeps its position, a new key goes to the end
DictSet(d, k, v) ==
    IF k \in Keys(d)
    THEN [i \in 1..Len(d) |-> IF d[i].name = k THEN [name |-> k, id |-> v] ELSE d[i]]
    ELSE Append(d, [name |-> k, id |-> v])

\* d.pop(k) for a key that is present
HasOtherName(entry, k) == entry.name # k
DictPop(d, k) == SelectSeq(d, LAMBDA entry : HasOtherName(entry, k))

\* position of key k, 0 when absent
IndexOf(d, k) ==
    IF k \in Keys(d) THEN CHOOSE i \in 1..Len(d) : d[i].name = k ELSE 0

\* ------------------------------------------------------------ the server
\* One record per identifier; objects holds the identifiers of the children.
Dead == [alive |-> FALSE, type |-> "", name |-> "", objects |-> <<>>]

IsAlive(s, id) == id \in DOMAIN s /\ s[id].alive

Ref(s, id) == [id |-> id, name |-> s[id].name, type |-> s[id].type]

\* The record the server returns for an object: its "objects" array lists
\* {type, id, name} of each child.
Render(s, id) ==
    [id |-> id, name |-> s[id].name, type |-> s[id].type,
     objects |-> [i \in 1..Len(s[id].objects) |-> Ref(s, s[id].objects[i])]]

Kids(s, id) == {s[id].objects[i] : i \in 1..Len(s[id].objects)}

RECURSIVE Desc(_, _)
Desc(s, id) == Kids(s, id) \cup UNION {Desc(s, k) : k \in Kids(s, id)}

RefIds(objs) == {objs[i].id : i \in 1..Len(objs)}

\* no child is listed twice
Distinct(objs) == \A i, j \in 1..Len(objs) : objs[i].id = objs[j].id => i = j

NameTaken(s, type, name, but) ==
    \E i \in DOMAIN s :
        i # but /\ s[i].alive /\ TableType(s[i].type) = type /\ s[i].name = name

Answer(s, nid, resp) == [server |-> s, nextId |-> nid, resp |-> resp]

\* GET of an object URL
SrvGet(s, nid, url, ok) ==
    IF ok /\ IsAlive(s, url.oid) /\ TableType(s[url.oid].type) = url.type
    THEN Answer(s, nid, Render(s, url.oid))
    ELSE Answer(s, nid, Empty)

\* POST to the collection URL: a new object under a fresh identifier
SrvPost(s, nid, url, data, ok) ==
    IF /\ ok
       /\ nid <= MaxId
       /\ TableType(data.type) = url.type
       /\ url.type \in ObjTypes
       /\ data.name # ""
       /\ ~NameTaken(s, url.type, data.name, 0)
       /\ \A k \in RefIds(data.objects) : IsAlive(s, k)
       /\ (data.type # "NetworkGroup" => data.objects = <<>>)
       /\ Distinct(data.objects)
    THEN LET s1 == [s EXCEPT ![nid] =
                      [alive |-> TRUE, type |-> data.type, name |-> data.name,
                       objects |-> [i \in 1..Len(data.objects) |-> data.objects[i].id]]]
         IN Answer(s1, nid + 1, Render(s1, nid))
    ELSE Answer(s, nid, Empty)

\* PUT to an object URL: the record is replaced by the payload
SrvPut(s, nid, url, data, ok) ==
    IF /\ ok
       /\ IsAlive(s, url.oid)
       /\ TableType(s[url.oid].type) = url.type
       /\ data.id = url.oid
       /\ data.type = s[url.oid].type
       /\ data.name # ""
       /\ ~NameTaken(s, url.type, data.name, url.oid)
       /\ \A k \in RefIds(data.objects) :
             IsAlive(s, k) /\ k # url.oid /\ url.oid \notin Desc(s, k)
       /\ (data.type # "NetworkGroup" => data.objects = <<>>)
       /\ Distinct(data.objects)
    THEN LET s1 == [s EXCEPT ![url.oid] =
                      [alive |-> TRUE, type |-> data.type, name |-> data.name,
                       objects |-> [i \in 1..Len(data.objects) |-> data.objects[i].id]]]
         IN Answer(s1, nid, Render(s1, url.oid))
    ELSE Answer(s, nid, Empty)

\* DELETE of an object URL: refused while another object lists it as a child
SrvDelete(s, nid, url, ok) ==
    IF /\ ok
       /\ IsAlive(s, url.oid)
       /\ TableType(s[url.oid].type) = url.type
       /\ \A p \in DOMAIN s : s[p].alive => url.oid \notin Kids(s, p)
    THEN Answer([s EXCEPT ![url.oid] = Dead], nid, Render(s, url.oid))
    ELSE Answer(s, nid, Empty)

\* The transport collaborator: one request, one parsed body (Empty when the
\* server does not answer with success).
Transport(s, nid, rq, ok) ==
    CASE rq.method = "GET" -> SrvGet(s, nid, rq.url, ok)
      [] rq.method = "POST" -> SrvPost(s, nid, rq.url, rq.data, ok)
      [] rq.method = "PUT" -> SrvPut(s, nid, rq.url, rq.data, ok)
      [] rq.method = "DELETE" -> SrvDelete(s, nid, rq.url, ok)
      [] OTHER -> Answer(s, nid, Empty)

\* ---------------------------------------------------------------- state
VARIABLES
    server,      \* the FMC server: identifier -> record
    nextId,      \* the identifier the server gives its next new object
    obj_tables,  \* FMC.obj_tables[type].names
    ents,        \* the caller's FPObject variables: the json each one holds
    reqs,        \* the requests the last operation sent, in order
    last,        \* the last operation and how it ended (had: the entries the
                 \* table held before a build or an iteration)
    deleted,     \* the entities whose delete() the server confirmed
    client,      \* FMCClient: req_count, the seconds since req_time (elapsed),
                 \* and the seconds the last call of _req slept
    window,      \* an observer's interval [t, t + 60): whether it is open, its
                 \* age, and the requests forwarded to the transport within it
    res_table,   \* the FPResourceTable the caller holds: resource, type, names
    env,         \* how the server answered the last call that pages a resource
    actors       \* the actors that share the registry, each somewhere in _req

vars ==
    <<server, nextId, obj_tables, ents, reqs, last, deleted, client, window, res_table,
      env, actors>>

\* The actors between calls.  pc: where each one is in _req; held: the counter
\* it has read for `self.req_count += 1`; sent: the requests forwarded since
\* req_time was last set; turn, switches: who moved last, and how often an
\* actor in the middle of _req was set aside for the other.
Actors == {1, 2}
Resting ==
    [pc |-> [a \in Actors |-> "idle"], held |-> [a \in Actors |-> 0],
     sent |-> 0, turn |-> 0, switches |-> 0]

\* the caller's table variable before any FPResourceTable was constructed
NoTable == [resource |-> "", type |-> "", names |-> <<>>]

\* FMCClient.__init__: req_time = now, req_count = 0
NewClient == [req_count |-> 0, elapsed |-> 0, slept |-> 0]

Unwatched == [open |-> FALSE, age |-> 0, seen |-> 0]

\* an FPObject variable that was never assigned
NoEnt == [id |-> 0 - 1, name |-> "", type |-> "", objects |-> <<>>]

Outcome(op, e, arg, confirmed, raised, errlog, had) ==
    [op |-> op, ent |-> e, arg |-> arg, confirmed |-> confirmed,
     raised |-> raised, errlog |-> errlog, had |-> had]

\* FMC.__init__: one empty FPObjectTable per object type
Init ==
    /\ server = [i \in Ids |-> Dead]
    /\ nextId = 1
    /\ obj_tables = [t \in ObjTypes |-> <<>>]
    /\ ents = [e \in Ents |-> NoEnt]
    /\ reqs = <<>>
    /\ last = Outcome("init", 0, "", FALSE, "", FALSE, 0)
    /\ deleted = {}
    /\ client = NewClient
    /\ window = Unwatched
    /\ res_table = NoTable
    /\ env = [fail |-> 0, keeps |-> TRUE]
    /\ actors = Resting


\* ------------------------------------------------------- FMCClient._req
\* The pace of the requests is followed for calls of _req on their own
\* (SpecRate).  In the operations of the registry below, the transport stands
\* for the whole chain under self._req, and time is not followed.
RATE_LIMIT == 120
RATE_WINDOW == 60

METHODS == {"GET", "POST", "PUT", "DELETE"}

\* over the window every elapsed time acts alike
Capped(t) == IF t > RATE_WINDOW THEN RATE_WINDOW + 1 ELSE t

\* _req forwarding whatever method it is given
req_any(c, method) ==
    LET n == c.req_count + 1
        limited == n # 1 /\ ~(n < RATE_LIMIT)
        time_diff == c.elapsed
    IN [req_count |-> IF limited THEN 1 ELSE n,
        elapsed |-> IF n = 1 \/ limited THEN 0 ELSE c.elapsed,
        slept |-> IF limited /\ time_diff <= RATE_WINDOW
                  THEN RATE_WINDOW - time_diff + 1
                  ELSE 0,
        raised |-> IF method = "" THEN "KeyError" ELSE "",
        forwarded |-> method # ""]

\* _req sleeping for the rest of the window without the second of margin
req_no_margin(c, method) ==
    LET n == c.req_count + 1
        limited == n # 1 /\ ~(n < RATE_LIMIT)
        time_diff == c.elapsed
    IN [req_count |-> IF limited THEN 1 ELSE n,
        elapsed |-> IF n = 1 \/ limited THEN 0 ELSE c.elapsed,
        slept |-> IF limited /\ time_diff <= RATE_WINDOW
                  THEN RATE_WINDOW - time_diff
                  ELSE 0,
        raised |-> IF method = "" THEN "KeyError"
                   ELSE IF method \notin METHODS THEN "FMCError" ELSE "",
        forwarded |-> method \in METHODS]

\* FMCClient._req(url, method=method): the counters after the call, the time
\* it slept, what it raised and whether it called the transport.  method = ""
\* is a call without the keyword: kwargs['method'] fails.
req(c, method) ==
    LET n == c.req_count + 1
        limited == n # 1 /\ ~(n < RATE_LIMIT)
        time_diff == c.elapsed
    IN [req_count |-> IF limited THEN 1 ELSE n,
        elapsed |-> IF n = 1 \/ limited THEN 0 ELSE c.elapsed,
        slept |-> IF limited /\ time_diff <= RATE_WINDOW
                  THEN RATE_WINDOW - time_diff + 1
                  ELSE 0,
        raised |-> IF method = "" THEN "KeyError"
                   ELSE IF method \notin METHODS THEN "FMCError" ELSE "",
        forwarded |-> method \in METHODS]

\* ------------------------------------------------------- FMC._req_json
\* _req_json with the payload tested before the identifier
req_json_payload_first(type, oid, url, data) ==
    IF data # Empty
    THEN <<Request("POST", ListUrl(type, 0, FALSE), data)>>
    ELSE IF oid # 0
         THEN <<Request("GET", ObjUrl(type, oid), Empty)>>
         ELSE IF url # NoUrl
              THEN <<Request("GET", url, Empty)>>
              ELSE <<>>

\* The requests one call of _req_json sends: the identifier wins over the
\* URL, the URL over the payload; with none of them nothing is sent.  A
\* payload with name = "" is one without the key 'name': the warning logged
\* before the POST reads data['name'] and raises.
req_json(type, oid, url, data) ==
    IF oid # 0
    THEN <<Request("GET", ObjUrl(type, oid), Empty)>>
    ELSE IF url # NoUrl
         THEN <<Request("GET", url, Empty)>>
         ELSE IF data # Empty
              THEN IF data.name = ""
                   THEN <<>>
                   ELSE <<Request("POST", ListUrl(type, 0, FALSE), data)>>
              ELSE <<>>

\* the exception one call of _req_json raises, "" when it returns
req_json_raised(oid, url, data) ==
    IF oid = 0 /\ url = NoUrl /\ data # Empty /\ data.name = "" THEN "KeyError" ELSE ""

\* What the transport answers to the requests of one _req_json call.
Fetch(s, nid, rqs, ok) ==
    IF rqs = <<>> THEN Answer(s, nid, Empty) ELSE Transport(s, nid, rqs[1], ok)

\* ------------------------------------------------------------ FPObject
\* FPResource.url: json['links']['self'], the server's URL of the record
SelfUrl(json) == ObjUrl(TableType(json.type), json.id)

\* What a constructor or method leaves behind: the held json, the tables,
\* the server, the requests it sent, and how it ended.
Result(json, tables, ans, rqs, raised, errlog) ==
    [json |-> json, tables |-> tables, server |-> ans.server,
     nextId |-> ans.nextId, resp |-> ans.resp, reqs |-> rqs,
     raised |-> raised, errlog |-> errlog]

\* FPObject.__init__(fmc, data=payload)
FPObject_data(tables, data, s, nid, ok) ==
    LET type == TableType(data.type)
        oid == IF data.name \in Keys(tables[type])
               THEN Get(tables[type], data.name)
               ELSE 0
        rqs == req_json(type, oid, NoUrl, data)
        ans == Fetch(s, nid, rqs, ok)
    IN IF len(ans.resp) # 0
       THEN Result(ans.resp,
                   [tables EXCEPT ![type] = DictSet(@, ans.resp.name, ans.resp.id)],
                   ans, rqs, "", FALSE)
       ELSE Result(Empty, tables, ans, rqs, "", TRUE)

\* What FPObject(fmc, obj=obj) leaves behind: the new entity and the record
\* the entity obj holds afterwards.
Copied(made, source) == [made |-> made, source |-> source]

RECURSIVE remap_kept(_, _, _)
\* the loop looking every name up and leaving the identifiers as they are
remap_kept(tables, objs, i) ==
    IF i > Len(objs)
    THEN [objs |-> objs, raised |-> ""]
    ELSE IF objs[i].name \notin Keys(tables[TableType(objs[i].type)])
    THEN [objs |-> objs, raised |-> "KeyError"]
    ELSE remap_kept(tables, objs, i + 1)

RECURSIVE remap(_, _, _)
\* the loop `for child_obj in data['objects']`, from item i: the list with the
\* identifiers set so far, and the KeyError of a name the table lacks
remap(tables, objs, i) ==
    IF i > Len(objs)
    THEN [objs |-> objs, raised |-> ""]
    ELSE IF objs[i].name \notin Keys(tables[TableType(objs[i].type)])
    THEN [objs |-> objs, raised |-> "KeyError"]
    ELSE remap(tables,
               [objs EXCEPT ![i].id = Get(tables[TableType(objs[i].type)], objs[i].name)],
               i + 1)

\* the constructor from the request on; `absent` is what the failure branch
\* does: data.get on data = None raises, with a payload the failure is logged
construct(tables, type, rqs, ans, absent, source) ==
    IF len(ans.resp) # 0
    THEN Copied(Result(ans.resp,
                       [tables EXCEPT ![type] = DictSet(@, ans.resp.name, ans.resp.id)],
                       ans, rqs, "", FALSE),
                source)
    ELSE Copied(Result(Empty, tables, ans, rqs, absent, absent = ""), source)

\* the branch `else` of `if obj.name in ... names.keys()`: data is a shallow
\* copy of obj.json, so data['objects'] is the list obj.json holds
copy_of(tables, obj, m, s, nid, ok) ==
    IF m.raised # ""
    THEN Copied(Result(Empty, tables, Answer(s, nid, Empty), <<>>, m.raised, FALSE),
                [obj EXCEPT !.objects = m.objs])
    ELSE construct(tables, TableType(obj.type),
                   req_json(TableType(obj.type), 0, NoUrl,
                            [obj EXCEPT !.id = 0, !.objects = m.objs]),
                   Fetch(s, nid,
                         req_json(TableType(obj.type), 0, NoUrl,
                                  [obj EXCEPT !.id = 0, !.objects = m.objs]),
                         ok),
                   "", [obj EXCEPT !.objects = m.objs])

\* FPObject.__init__(fmc, obj=obj)
FPObject_obj(tables, obj, s, nid, ok) ==
    IF obj.name \in Keys(tables[TableType(obj.type)])
    THEN construct(tables, TableType(obj.type),
                   req_json(TableType(obj.type),
                            Get(tables[TableType(obj.type)], obj.name), NoUrl, Empty),
                   Fetch(s, nid,
                         req_json(TableType(obj.type),
                                  Get(tables[TableType(obj.type)], obj.name), NoUrl, Empty),
                         ok),
                   "AttributeError", obj)
    ELSE copy_of(tables, obj, remap(tables, obj.objects, 1), s, nid, ok)

\* update() that moves the table entry to the name the server answered with
update_cached(json, tables, data, s, nid, ok) ==
    IF json = Empty
    THEN Result(json, tables, Answer(s, nid, Empty), <<>>, "TypeError", FALSE)
    ELSE LET rqs == <<Request("PUT", SelfUrl(json), data)>>
             ans == Transport(s, nid, rqs[1], ok)
         IN Result(IF len(ans.resp) # 0 THEN ans.resp ELSE json,
                   IF len(ans.resp) # 0
                   THEN [tables EXCEPT ![TableType(json.type)] =
                            DictSet(DictPop(@, json.name), ans.resp.name, ans.resp.id)]
                   ELSE tables,
                   ans, rqs, "", FALSE)

\* FPObject.update(data)
update(json, tables, data, s, nid, ok) ==
    IF json = Empty
    THEN Result(json, tables, Answer(s, nid, Empty), <<>>, "TypeError", FALSE)
    ELSE LET rqs == <<Request("PUT", SelfUrl(json), data)>>
             ans == Transport(s, nid, rqs[1], ok)
         IN Result(IF len(ans.resp) # 0 THEN ans.resp ELSE json,
                   tables, ans, rqs, "", FALSE)

\* delete() dropping the entry without looking at the response
delete_unconfirmed(json, tables, s, nid, ok) ==
    IF json = Empty
    THEN Result(json, tables, Answer(s, nid, Empty), <<>>, "TypeError", FALSE)
    ELSE LET type == TableType(json.type)
             rqs == <<Request("DELETE", SelfUrl(json), Empty)>>
             ans == Transport(s, nid, rqs[1], ok)
         IN IF json.name \in Keys(tables[type])
            THEN Result(json, [tables EXCEPT ![type] = DictPop(@, json.name)],
                        ans, rqs, "", FALSE)
            ELSE Result(json, tables, ans, rqs, "KeyError", FALSE)

\* FPObject.delete()
delete(json, tables, s, nid, ok) ==
    IF json = Empty
    THEN Result(json, tables, Answer(s, nid, Empty), <<>>, "TypeError", FALSE)
    ELSE LET type == TableType(json.type)
             rqs == <<Request("DELETE", SelfUrl(json), Empty)>>
             ans == Transport(s, nid, rqs[1], ok)
         IN IF len(ans.resp) # 0
            THEN IF json.name \in Keys(tables[type])
                 THEN Result(json, [tables EXCEPT ![type] = DictPop(@, json.name)],
                             ans, rqs, "", FALSE)
                 ELSE Result(json, tables, ans, rqs, "KeyError", FALSE)
            ELSE Result(json, tables, ans, rqs, "", FALSE)

\* FPObject.rename(new_name)
rename(json, tables, new_name, s, nid, ok) ==
    IF new_name = ""
    THEN Result(json, tables, Answer(s, nid, Empty), <<>>, "", TRUE)
    ELSE IF json = Empty
    THEN Result(json, tables, Answer(s, nid, Empty), <<>>, "TypeError", FALSE)
    ELSE LET type == TableType(json.type)
             old_name == json.name
             put_data == [json EXCEPT !.name = new_name]
             u == update(json, tables, put_data, s, nid, ok)
             ans == Answer(u.server, u.nextId, u.resp)
         IN IF u.json.name = new_name
            THEN IF old_name \in Keys(tables[type])
                 THEN Result(u.json,
                             [tables EXCEPT ![type] =
                                 DictSet(DictPop(@, old_name), u.json.name, u.json.id)],
                             ans, u.reqs, "", FALSE)
                 ELSE Result(u.json, tables, ans, u.reqs, "KeyError", FALSE)
            ELSE Result(u.json, tables, ans, u.reqs, "", TRUE)

\* ------------------------------------------- FPObject: children and parents
\* envt = [fail, lists]: the fail-th request of the call gets an empty response
\* (0: none does); lists tells whether this server renders the "objects" key
\* of a record that has no children (as an empty array).
Answered(rqs, envt) == Len(rqs) + 1 # envt.fail

\* the descriptor {id, name, overridable, type} of a child
Descriptor(json) == [id |-> json.id, name |-> json.name, type |-> json.type]

\* 'objects' in json.keys()
HasObjects(json, envt) == json.objects # <<>> \/ envt.lists

\* FPObject.__init__(fmc, type=type, oid=oid).  With an empty response
\* data.get fails on data = None.
FPObject_oid(tables, type, oid, s, nid, ok) ==
    LET rqs == req_json(type, oid, NoUrl, Empty)
        ans == Fetch(s, nid, rqs, ok)
    IN IF len(ans.resp) # 0
       THEN Result(ans.resp,
                   [tables EXCEPT ![type] = DictSet(@, ans.resp.name, ans.resp.id)],
                   ans, rqs, "", FALSE)
       ELSE Result(Empty, tables, ans, rqs, "AttributeError", FALSE)

\* The tables this registry keeps: a type without a table of its own in this
\* model has an empty one.
NamesOf(tables, type) == IF type \in DOMAIN tables THEN tables[type] ELSE <<>>

\* FPObject.get_child_object(child_name), up to the construction of the child:
\* the first allowed child type whose table has the name, "" when none has.
get_child_object(tables, type, child_name) ==
    LET children_types == CHILD_OBJECT_TYPES[type]
        hits == {i \in 1..Len(children_types) :
                    child_name \in Keys(NamesOf(tables, children_types[i]))}
    IN IF hits = {} THEN ""
       ELSE children_types[CHOOSE i \in hits : \A j \in hits : i <= j]

\* FPObject._update_json(): self.json = self.fmc._req(self.url)
update_json(json, s, nid, rqs, envt) ==
    Transport(s, nid, Request("GET", SelfUrl(json), Empty), Answered(rqs, envt)).resp

\* add_children in progress: the tables, the requests sent, the descriptors
\* appended to put_data['objects'], the exception raised, and whether every
\* name so far had a child object.
Batch(tables, rqs, objs, raised, found) ==
    [tables |-> tables, reqs |-> rqs, objs |-> objs, raised |-> raised, found |-> found]

RECURSIVE each_child(_, _, _, _, _, _, _)
\* the loop `for child_name in children_names` of add_children, from name i
each_child(acc, s, nid, type, names, i, envt) ==
    IF i > Len(names) \/ acc.raised # "" \/ ~acc.found
    THEN acc
    ELSE IF type \notin GROUP_OBJECT_TYPES
    THEN [acc EXCEPT !.raised = "KeyError"]
    ELSE LET child_type == get_child_object(acc.tables, type, names[i])
         IN IF child_type = ""
            THEN [acc EXCEPT !.found = FALSE]
            ELSE LET child_obj == FPObject_oid(acc.tables, child_type,
                                               Get(acc.tables[child_type], names[i]),
                                               s, nid, Answered(acc.reqs, envt))
                 IN IF child_obj.raised # ""
                    THEN [acc EXCEPT !.reqs = @ \o child_obj.reqs,
                                     !.raised = child_obj.raised]
                    ELSE each_child(
                            Batch(child_obj.tables, acc.reqs \o child_obj.reqs,
                                  Append(acc.objs, Descriptor(child_obj.json)),
                                  "", TRUE),
                            s, nid, type, names, i + 1, envt)

\* what a method that ends with self.update(...) leaves behind: the requests
\* sent before the write, then those of the write
Written(u, rqs) ==
    Result(u.json, u.tables, Answer(u.server, u.nextId, u.resp), rqs \o u.reqs,
           u.raised, u.errlog)

\* put_children writing whether or not every name had a child object
put_children_partial(fresh, acc, s, nid, envt) ==
    LET put_data == [fresh EXCEPT !.objects = @ \o acc.objs]
        held == IF HasObjects(fresh, envt) THEN put_data ELSE fresh
    IN IF acc.raised # ""
       THEN Result(held, acc.tables, Answer(s, nid, Empty), acc.reqs, acc.raised, FALSE)
       ELSE Written(update(held, acc.tables, put_data, s, nid, Answered(acc.reqs, envt)),
                    acc.reqs)

\* The end of add_children: put_data is a shallow copy of self.json, so the
\* descriptors appended to an "objects" list the record came with are
\* appended to the held record too; a name without child object returns
\* before the write.
put_children(fresh, acc, s, nid, envt) ==
    LET put_data == [fresh EXCEPT !.objects = @ \o acc.objs]
        held == IF HasObjects(fresh, envt) THEN put_data ELSE fresh
    IN IF acc.raised # "" \/ ~acc.found
       THEN Result(held, acc.tables, Answer(s, nid, Empty), acc.reqs, acc.raised, FALSE)
       ELSE Written(update(held, acc.tables, put_data, s, nid, Answered(acc.reqs, envt)),
                    acc.reqs)

\* add_children leaving the loop at a name without child object and writing
\* what it has so far
add_children_partial(json, tables, names, s, nid, envt) ==
    LET type == TableType(json.type)
        rq1 == Request("GET", SelfUrl(json), Empty)
        fresh == update_json(json, s, nid, <<>>, envt)
    IN IF len(fresh) = 0
       THEN Result(Empty, tables, Answer(s, nid, Empty), <<rq1>>, "AttributeError", FALSE)
       ELSE put_children_partial(fresh, each_child(Batch(tables, <<rq1>>, <<>>, "", TRUE),
                                        s, nid, type, names, 1, envt),
                   s, nid, envt)

\* FPObject.add_children(*children_names).  put_data is a shallow copy, so
\* the descriptors appended to an "objects" list the record came with are
\* appended to the held record too.
add_children(json, tables, names, s, nid, envt) ==
    LET type == TableType(json.type)
        rq1 == Request("GET", SelfUrl(json), Empty)
        fresh == update_json(json, s, nid, <<>>, envt)
    IN IF len(fresh) = 0
       THEN Result(Empty, tables, Answer(s, nid, Empty), <<rq1>>, "AttributeError", FALSE)
       ELSE put_children(fresh, each_child(Batch(tables, <<rq1>>, <<>>, "", TRUE),
                                        s, nid, type, names, 1, envt),
                   s, nid, envt)

\* remove_child writing the filtered list whether or not it found the name
remove_child_always(json, tables, child_name, s, nid, envt) ==
    LET rq1 == Request("GET", SelfUrl(json), Empty)
        fresh == update_json(json, s, nid, <<>>, envt)
        kept == SelectSeq(fresh.objects, LAMBDA obj_child : HasOtherName(obj_child, child_name))
    IN IF len(fresh) = 0
       THEN Result(Empty, tables, Answer(s, nid, Empty), <<rq1>>, "AttributeError", FALSE)
       ELSE IF ~HasObjects(fresh, envt)
       THEN Result(fresh, tables, Answer(s, nid, Empty), <<rq1>>, "KeyError", FALSE)
       ELSE LET u == update(fresh, tables, [fresh EXCEPT !.objects = kept],
                            s, nid, Answered(<<rq1>>, envt))
            IN Result(u.json, u.tables, Answer(u.server, u.nextId, u.resp),
                      <<rq1>> \o u.reqs, u.raised, u.errlog)

\* FPObject.remove_child(child_name)
remove_child(json, tables, child_name, s, nid, envt) ==
    LET rq1 == Request("GET", SelfUrl(json), Empty)
        fresh == update_json(json, s, nid, <<>>, envt)
        kept == SelectSeq(fresh.objects, LAMBDA obj_child : HasOtherName(obj_child, child_name))
    IN IF len(fresh) = 0
       THEN Result(Empty, tables, Answer(s, nid, Empty), <<rq1>>, "AttributeError", FALSE)
       ELSE IF ~HasObjects(fresh, envt)
       THEN Result(fresh, tables, Answer(s, nid, Empty), <<rq1>>, "KeyError", FALSE)
       ELSE IF kept # fresh.objects
            THEN LET u == update(fresh, tables, [fresh EXCEPT !.objects = kept],
                                 s, nid, Answered(<<rq1>>, envt))
                 IN Result(u.json, u.tables, Answer(u.server, u.nextId, u.resp),
                           <<rq1>> \o u.reqs, u.raised, u.errlog)
            ELSE Result(fresh, tables, Answer(s, nid, Empty), <<rq1>>, "", TRUE)

\* FPObject.add_to_parent(pname): the write goes to the parent; this entity
\* keeps its record.
add_to_parent(json, tables, pname, s, nid, envt) ==
    LET ptype == parent_type(TableType(json.type))
        parent_obj == FPObject_oid(tables, ptype, Get(tables[ptype], pname),
                                   s, nid, Answered(<<>>, envt))
        put_data == [parent_obj.json EXCEPT !.objects = Append(@, Descriptor(json))]
        u == update(parent_obj.json, parent_obj.tables, put_data, s, nid,
                    Answered(parent_obj.reqs, envt))
    IN IF pname = ""
       THEN Result(json, tables, Answer(s, nid, Empty), <<>>, "", TRUE)
       ELSE IF ptype = "None"
       THEN Result(json, tables, Answer(s, nid, Empty), <<>>, "KeyError", FALSE)
       ELSE IF pname \notin Keys(NamesOf(tables, ptype))
       THEN Result(json, tables, Answer(s, nid, Empty), <<>>, "", TRUE)
       ELSE IF parent_obj.raised # ""
       THEN Result(json, tables, Answer(s, nid, Empty), parent_obj.reqs,
                   parent_obj.raised, FALSE)
       ELSE Result(json, u.tables, Answer(u.server, u.nextId, u.resp),
                   parent_obj.reqs \o u.reqs, u.raised, u.errlog)

\* FPObject.remove_from_parent(pname)
remove_from_parent(json, tables, pname, s, nid, envt) ==
    LET ptype == parent_type(TableType(json.type))
        parent_obj == FPObject_oid(tables, ptype, Get(tables[ptype], pname),
                                   s, nid, Answered(<<>>, envt))
        kept == SelectSeq(parent_obj.json.objects,
                          LAMBDA obj_child : HasOtherName(obj_child, json.name))
        u == update(parent_obj.json, parent_obj.tables,
                    [parent_obj.json EXCEPT !.objects = kept], s, nid,
                    Answered(parent_obj.reqs, envt))
    IN IF pname = ""
       THEN Result(json, tables, Answer(s, nid, Empty), <<>>, "", TRUE)
       ELSE IF ptype = "None"
       THEN Result(json, tables, Answer(s, nid, Empty), <<>>, "KeyError", FALSE)
       ELSE IF pname \notin Keys(NamesOf(tables, ptype))
       THEN Result(json, tables, Answer(s, nid, Empty), <<>>, "", TRUE)
       ELSE IF parent_obj.raised # ""
       THEN Result(json, tables, Answer(s, nid, Empty), parent_obj.reqs,
                   parent_obj.raised, FALSE)
       ELSE IF ~HasObjects(parent_obj.json, envt)
       THEN Result(json, parent_obj.tables, Answer(s, nid, Empty), parent_obj.reqs,
                   "", TRUE)
       ELSE Result(json, u.tables, Answer(u.server, u.nextId, u.resp),
                   parent_obj.reqs \o u.reqs, u.raised, u.errlog)

\* ------------------------------------------------------ listing pages
IdsOf(s, type) == {i \in DOMAIN s : s[i].alive /\ TableType(s[i].type) = type}

Nth(S, k) == CHOOSE x \in S : Cardinality({y \in S : y < x}) = k - 1

\* The server lists the objects of a type by identifier.
Listing(s, type) ==
    [k \in 1..Cardinality(IdsOf(s, type)) |-> Render(s, Nth(IdsOf(s, type), k))]

\* An item of a listing that was not asked with expanded=true carries no detail.
Brief(item) == [item EXCEPT !.objects = <<>>]

Min(a, b) == IF a < b THEN a ELSE b

NoPage == [ok |-> FALSE, items |-> <<>>, count |-> 0, next |-> NoUrl]

\* GET of a listing URL: {items, paging: {count, next?}}.  keeps tells whether
\* this server version carries expanded=true over into the "next" link.
SrvList(s, url, keeps, ok) ==
    IF ~ok \/ url.type \notin ObjTypes
    THEN NoPage
    ELSE LET all == Listing(s, url.type)
             upto == Min(url.offset + PageLimit, Len(all))
             page == SubSeq(all, url.offset + 1, upto)
         IN [ok |-> TRUE,
             items |-> IF url.expanded THEN page
                       ELSE [i \in 1..Len(page) |-> Brief(page[i])],
             count |-> Len(all),
             next |-> IF upto < Len(all)
                      THEN ListUrl(url.type, upto, url.expanded /\ keeps)
                      ELSE NoUrl]

\* --------------------------------------------------------- FPObjectTable
\* A table operation in progress: the names so far, the requests sent so far,
\* the exception raised.  envt = [fail, keeps]: the fail-th request of the
\* operation gets an empty response (0: none does).
Progress(names, rqs, raised) == [names |-> names, reqs |-> rqs, raised |-> raised]

Sent(acc, rq) == [acc EXCEPT !.reqs = Append(@, rq)]

Fails(acc, envt) == Len(acc.reqs) = envt.fail

\* envt.fail = -k: the k-th request, when it asks for a listing, is answered
\* by a page that reports paging.count = 0
Zeroed(acc, envt) == Len(acc.reqs) = 0 - envt.fail

\* the page that answers the listing request sent last
Page(acc, s, url, envt) ==
    LET resp == SrvList(s, url, envt.keeps, ~Fails(acc, envt))
    IN IF resp.ok /\ Zeroed(acc, envt) THEN [resp EXCEPT !.count = 0] ELSE resp

RECURSIVE add_child_first(_, _, _, _, _)
RECURSIVE nested_first(_, _, _, _, _, _)

\* the loop `for ch_item in obj_json["objects"]` of add_child_first, from item i
nested_first(acc, s, type, objs, i, envt) ==
    IF i > Len(objs) \/ acc.raised # ""
    THEN acc
    ELSE IF TableType(objs[i].type) = type
         THEN LET rqs == req_json(type, objs[i].id, NoUrl, Empty)
                  acc1 == Sent(acc, rqs[1])
                  ch_json == Fetch(s, 0, rqs, ~Fails(acc1, envt)).resp
              IN nested_first(add_child_first(acc1, s, type, ch_json, envt),
                              s, type, objs, i + 1, envt)
         ELSE nested_first(acc, s, type, objs, i + 1, envt)

\* add_child_first with the insertion moved before the descent into the children
add_parent_first(acc, s, type, obj_json, envt) ==
    IF acc.raised # ""
    THEN acc
    ELSE IF len(obj_json) = 0
    THEN [acc EXCEPT !.raised = "AttributeError"]
    ELSE nested_first(
            IF obj_json.name \notin Keys(acc.names)
            THEN [acc EXCEPT !.names = DictSet(@, obj_json.name, obj_json.id)]
            ELSE acc,
            s, type, obj_json.objects, 1, envt)

\* add_child_first writing the entry anew each time it meets the name
add_child_anew(acc, s, type, obj_json, envt) ==
    IF acc.raised # ""
    THEN acc
    ELSE IF len(obj_json) = 0
    THEN [acc EXCEPT !.raised = "AttributeError"]
    ELSE LET acc1 == nested_first(acc, s, type, obj_json.objects, 1, envt)
         IN IF acc1.raised # ""
            THEN acc1
            ELSE [acc1 EXCEPT !.names =
                     Append(DictPop(@, obj_json.name),
                            [name |-> obj_json.name, id |-> obj_json.id])]

\* add_child_first passing over a child that could not be fetched
add_child_skipping(acc, s, type, obj_json, envt) ==
    IF acc.raised # ""
    THEN acc
    ELSE IF len(obj_json) = 0
    THEN acc
    ELSE LET acc1 == nested_first(acc, s, type, obj_json.objects, 1, envt)
         IN IF acc1.raised # ""
            THEN acc1
            ELSE IF obj_json.name \notin Keys(acc1.names)
                 THEN [acc1 EXCEPT !.names = DictSet(@, obj_json.name, obj_json.id)]
                 ELSE acc1

\* FPObjectTable.add_child_first(obj_json).  An empty obj_json has neither
\* .get nor ['name']: the call raises.
add_child_first(acc, s, type, obj_json, envt) ==
    IF acc.raised # ""
    THEN acc
    ELSE IF len(obj_json) = 0
    THEN [acc EXCEPT !.raised = "AttributeError"]
    ELSE LET acc1 == nested_first(acc, s, type, obj_json.objects, 1, envt)
         IN IF acc1.raised # ""
            THEN acc1
            ELSE IF obj_json.name \notin Keys(acc1.names)
                 THEN [acc1 EXCEPT !.names = DictSet(@, obj_json.name, obj_json.id)]
                 ELSE acc1

RECURSIVE each_item(_, _, _, _, _, _)
\* the loop `for obj_json in resp['items']` of FPObjectTable.build
each_item(acc, s, type, items, i, envt) ==
    IF i > Len(items) \/ acc.raised # ""
    THEN acc
    ELSE each_item(add_child_first(acc, s, type, items[i], envt),
                   s, type, items, i + 1, envt)

\* 'expanded=true' is appended to a "next" link that lacks it
Expanded(url) == IF ~url.expanded THEN [url EXCEPT !.expanded = TRUE] ELSE url

RECURSIVE build_pages(_, _, _, _, _)
\* the loop `while url` of FPObjectTable.build
build_pages(acc, s, type, url, envt) ==
    IF url = NoUrl
    THEN acc
    ELSE LET acc1 == Sent(acc, Request("GET", url, Empty))
             resp == Page(acc1, s, url, envt)
         IN IF ~resp.ok
            THEN acc1
            ELSE IF resp.count = 0
            THEN acc1
            ELSE LET acc2 == each_item(acc1, s, type, resp.items, 1, envt)
                 IN IF acc2.raised # ""
                    THEN acc2
                    ELSE IF resp.next # NoUrl
                         THEN build_pages(acc2, s, type, Expanded(resp.next), envt)
                         ELSE acc2

\* a build that reads the first page only
build_one_page(names, s, type, envt) ==
    LET acc1 == Sent(Progress(names, <<>>, ""),
                     Request("GET", ListUrl(type, 0, TRUE), Empty))
        resp == Page(acc1, s, ListUrl(type, 0, TRUE), envt)
    IN IF ~resp.ok \/ resp.count = 0
       THEN acc1
       ELSE each_item(acc1, s, type, resp.items, 1, envt)

\* FPObjectTable.build()
build(names, s, type, envt) ==
    build_pages(Progress(names, <<>>, ""), s, type, ListUrl(type, 0, TRUE), envt)

RECURSIVE bind_items(_, _, _)
\* FPObject(fmc, type, json=obj_json) for each item that the iteration yields
bind_items(names, items, i) ==
    IF i > Len(items)
    THEN names
    ELSE bind_items(DictSet(names, items[i].name, items[i].id), items, i + 1)

RECURSIVE iter_pages(_, _, _, _, _)
\* FMC.get_all_resource_instances drained by FPObjectTable.__iter__
iter_pages(acc, s, type, url, envt) ==
    IF url = NoUrl
    THEN acc
    ELSE LET acc1 == Sent(acc, Request("GET", url, Empty))
             resp == Page(acc1, s, url, envt)
         IN IF ~resp.ok \/ resp.count = 0
            THEN acc1
            ELSE iter_pages([acc1 EXCEPT !.names = bind_items(@, resp.items, 1)],
                            s, type, resp.next, envt)

\* for fp_obj in table: pass
iterate(names, s, type, envt) ==
    iter_pages(Progress(names, <<>>, ""), s, type, ListUrl(type, 0, TRUE), envt)

\* ------------------------------------------------------- FPResourceTable
NoAnswerLost(envt) == [envt EXCEPT !.fail = 0]

RECURSIVE set_items(_, _, _)
\* for obj_json in resp['items']: self.names[obj_json['name']] = obj_json['id']
set_items(names, items, i) ==
    IF i > Len(items)
    THEN names
    ELSE set_items(DictSet(names, items[i].name, items[i].id), items, i + 1)

RECURSIVE res_pages(_, _, _, _)
\* the loop `while url` of FPResourceTable.build
res_pages(acc, s, url, envt) ==
    IF url = NoUrl
    THEN acc
    ELSE LET acc1 == Sent(acc, Request("GET", url, Empty))
             resp == Page(acc1, s, url, envt)
         IN IF ~resp.ok
            THEN acc1
            ELSE IF resp.count = 0
            THEN acc1
            ELSE LET acc2 == [acc1 EXCEPT !.names = set_items(@, resp.items, 1)]
                 IN IF resp.next # NoUrl
                    THEN res_pages(acc2, s, Expanded(resp.next), envt)
                    ELSE acc2

\* a build that takes every response for a full page
res_build_through(names, s, type, envt) ==
    res_pages(Progress(names, <<>>, ""), s, ListUrl(type, 0, TRUE), NoAnswerLost(envt))

\* FPResourceTable.build()
res_build(names, s, type, envt) ==
    res_pages(Progress(names, <<>>, ""), s, ListUrl(type, 0, TRUE), envt)

RECURSIVE yield_pages(_, _, _, _)
\* the loop `while url` of get_all_resource_instances; names holds what was
\* yielded, in order
yield_pages(acc, s, url, envt) ==
    IF url = NoUrl
    THEN acc
    ELSE LET acc1 == Sent(acc, Request("GET", url, Empty))
             resp == Page(acc1, s, url, envt)
         IN IF ~resp.ok \/ resp.count = 0
            THEN acc1
            ELSE yield_pages([acc1 EXCEPT !.names = @ \o resp.items],
                             s, resp.next, envt)

\* list(fmc.get_all_resource_instances(resource, type))
get_all_resource_instances(resource, type, s, envt) ==
    IF validate(resource, type) # ""
    THEN Progress(<<>>, <<>>, validate(resource, type))
    ELSE yield_pages(Progress(<<>>, <<>>, ""), s, ListUrl(type, 0, TRUE), envt)

\* ------------------------------------------------------------- actions
\* The object type a table type holds
RecType(type) ==
    CASE type = "hosts" -> "Host"
      [] type = "securityzones" -> "SecurityZone"
      [] OTHER -> "NetworkGroup"

\* Child descriptors a caller can write from the tables
ChildLists ==
    {<<>>} \cup
    UNION {{<<[id |-> obj_tables[t][i].id, name |-> obj_tables[t][i].name,
               type |-> RecType(t)]>> : i \in 1..Len(obj_tables[t])} : t \in ObjTypes}

\* Creation payloads: a group without children, or with one child
FlatPayloads ==
    {[id |-> 0, name |-> n, type |-> "NetworkGroup", objects |-> <<>>] : n \in Names}

NestedPayloads ==
    {[id |-> 0, name |-> n, type |-> "NetworkGroup", objects |-> objs] :
        n \in Names, objs \in ChildLists \ {<<>>}}

Apply(op, e, arg, r) ==
    /\ server' = r.server
    /\ nextId' = r.nextId
    /\ obj_tables' = r.tables
    /\ ents' = [ents EXCEPT ![e] = r.json]
    /\ reqs' = r.reqs
    /\ last' = Outcome(op, e, arg, len(r.resp) # 0, r.raised, r.errlog, 0)
    /\ UNCHANGED <<client, window, res_table, env, actors>>

\* e = FPObject(fmc, data=data)
Create(e, data, ok) ==
    /\ Apply("create", e, data.name, FPObject_data(obj_tables, data, server, nextId, ok))
    /\ deleted' = deleted \ {e}

\* e.rename(new_name)
Rename(e, new_name, ok) ==
    /\ ents[e] # NoEnt
    /\ Apply("rename", e, new_name, rename(ents[e], obj_tables, new_name, server, nextId, ok))
    /\ UNCHANGED deleted

\* e.delete()
Delete(e, ok) ==
    /\ ents[e] # NoEnt
    /\ Apply("delete", e, ents[e].name, delete(ents[e], obj_tables, server, nextId, ok))
    /\ deleted' = IF len(delete(ents[e], obj_tables, server, nextId, ok).resp) # 0
                  THEN deleted \cup {e}
                  ELSE deleted

\* Payloads a caller passes to update: the held record with another name or
\* another list of children
UpdatePayloads(json) ==
    {[json EXCEPT !.name = n, !.objects = objs] :
        n \in Names,
        objs \in IF json.type = "Host" THEN {<<>>} ELSE {json.objects} \cup ChildLists}

\* e.update(data)
Update(e, data, ok) ==
    /\ ents[e] # NoEnt
    /\ Apply("update", e, data.name, update(ents[e], obj_tables, data, server, nextId, ok))
    /\ UNCHANGED deleted

\* Creation payloads of a type that is no group type
LeafPayloads(t) == {[id |-> 0, name |-> n, type |-> t, objects |-> <<>>] : n \in Names}

\* The names of one call of add_children
Batches == UNION {[1..k -> Names] : k \in 0..MaxBatch}

Env(fail, lists) == [fail |-> fail, lists |-> lists]

\* every request of the call is answered
Served(lists) == Env(0, lists)

\* e.add_children(*names)
AddChildren(e, names, fail, lists) ==
    /\ ents[e].id > 0
    /\ Apply("add_children", e, names,
             add_children(ents[e], obj_tables, names, server, nextId, Env(fail, lists)))
    /\ UNCHANGED deleted

\* e.remove_child(child_name)
RemoveChild(e, child_name, fail, lists) ==
    /\ ents[e].id > 0
    /\ Apply("remove_child", e, child_name,
             remove_child(ents[e], obj_tables, child_name, server, nextId, Env(fail, lists)))
    /\ UNCHANGED deleted

\* e.add_to_parent(pname)
AddToParent(e, pname, fail, lists) ==
    /\ ents[e].id > 0
    /\ Apply("add_to_parent", e, pname,
             add_to_parent(ents[e], obj_tables, pname, server, nextId, Env(fail, lists)))
    /\ UNCHANGED deleted

\* e.remove_from_parent(pname)
RemoveFromParent(e, pname, fail, lists) ==
    /\ ents[e].id > 0
    /\ Apply("remove_from_parent", e, pname,
             remove_from_parent(ents[e], obj_tables, pname, server, nextId,
                                Env(fail, lists)))
    /\ UNCHANGED deleted

DoCreateHost ==
    \E e \in Ents, data \in LeafPayloads("Host"), ok \in BOOLEAN : Create(e, data, ok)
DoCreateZone ==
    \E e \in Ents, data \in LeafPayloads("SecurityZone"), ok \in BOOLEAN :
        Create(e, data, ok)

DoAddChildren ==
    \E e \in Ents, names \in Batches, lists \in BOOLEAN :
        \E fail \in 0..Len(add_children(ents[e], obj_tables, names, server, nextId,
                                        Served(lists)).reqs) :
            AddChildren(e, names, fail, lists)

DoRemoveChild ==
    \E e \in Ents, n \in Names, lists \in BOOLEAN :
        \E fail \in 0..Len(remove_child(ents[e], obj_tables, n, server, nextId,
                                        Served(lists)).reqs) :
            RemoveChild(e, n, fail, lists)

DoAddToParent ==
    \E e \in Ents, n \in Names \cup {""}, lists \in BOOLEAN :
        \E fail \in 0..Len(add_to_parent(ents[e], obj_tables, n, server, nextId,
                                         Served(lists)).reqs) :
            AddToParent(e, n, fail, lists)

DoRemoveFromParent ==
    \E e \in Ents, n \in Names \cup {""}, lists \in BOOLEAN :
        \E fail \in 0..Len(remove_from_parent(ents[e], obj_tables, n, server, nextId,
                                              Served(lists)).reqs) :
            RemoveFromParent(e, n, fail, lists)

DoCreate == \E e \in Ents, data \in FlatPayloads, ok \in BOOLEAN : Create(e, data, ok)
DoCreateNested ==
    \E e \in Ents, data \in NestedPayloads, ok \in BOOLEAN : Create(e, data, ok)
DoRename == \E e \in Ents, n \in Names \cup {""}, ok \in BOOLEAN : Rename(e, n, ok)
DoDelete == \E e \in Ents, ok \in BOOLEAN : Delete(e, ok)
DoUpdate ==
    \E e \in Ents, ok \in BOOLEAN :
        \E data \in (IF ents[e].id > 0 THEN UpdatePayloads(ents[e]) ELSE {Empty}) :
            Update(e, data, ok)

NoFail(keeps) == [fail |-> 0, keeps |-> keeps]

TableStep(op, type, r, fail) ==
    /\ obj_tables' = [obj_tables EXCEPT ![type] = r.names]
    /\ reqs' = r.reqs
    /\ last' = Outcome(op, 0, type, fail = 0, r.raised, FALSE, Len(obj_tables[type]))
    /\ UNCHANGED <<server, nextId, ents, deleted, client, window, res_table, env, actors>>

\* fmc.obj_tables[type].build()
Build(type, fail, keeps) ==
    TableStep("build", type,
              build(obj_tables[type], server, type, [fail |-> fail, keeps |-> keeps]),
              fail)

\* for fp_obj in fmc.obj_tables[type]: pass
Iterate(type, fail, keeps) ==
    TableStep("iterate", type,
              iterate(obj_tables[type], server, type, [fail |-> fail, keeps |-> keeps]),
              fail)

\* which of n requests goes wrong, and how
Mishaps(n) == (0 - n)..n

DoBuild ==
    \E type \in ObjTypes, keeps \in BOOLEAN :
        \E fail \in Mishaps(Len(build(obj_tables[type], server, type, NoFail(keeps)).reqs)) :
            Build(type, fail, keeps)

DoIterate ==
    \E type \in ObjTypes, keeps \in BOOLEAN :
        \E fail \in Mishaps(Len(iterate(obj_tables[type], server, type, NoFail(keeps)).reqs)) :
            Iterate(type, fail, keeps)

\* The resources and types a caller names: known ones and unknown ones
Resources == {"object", "policy", "widgets"}
Types == {"networkgroups", "accesspolicies", "gadgets"}

\* t = FPResourceTable(fmc, resource, type); a constructor that raises leaves
\* the caller's variable as it was
NewTable(resource, type) ==
    /\ res_table' = IF validate(resource, type) = ""
                     THEN [resource |-> resource, type |-> type, names |-> <<>>]
                     ELSE res_table
    /\ reqs' = <<>>
    /\ last' = Outcome("new_table", 0, type, validate(resource, type) = "",
                       validate(resource, type), FALSE, 0)
    /\ UNCHANGED <<server, nextId, obj_tables, ents, deleted, client, window, env, actors>>

\* t.build()
ResBuild(fail, keeps) ==
    LET r == res_build(res_table.names, server, res_table.type,
                       [fail |-> fail, keeps |-> keeps])
    IN /\ res_table # NoTable
       /\ res_table' = [res_table EXCEPT !.names = r.names]
       /\ reqs' = r.reqs
       /\ last' = Outcome("res_build", 0, res_table.type, fail = 0, r.raised, FALSE,
                          Len(res_table.names))
       /\ env' = [fail |-> fail, keeps |-> keeps]
       /\ UNCHANGED <<server, nextId, obj_tables, ents, deleted, client, window, actors>>

\* list(fmc.get_all_resource_instances(resource, type)); had: the items yielded
ListAll(resource, type, fail, keeps) ==
    LET r == get_all_resource_instances(resource, type, server,
                                        [fail |-> fail, keeps |-> keeps])
    IN /\ reqs' = r.reqs
       /\ last' = Outcome("list_all", 0, type, fail = 0 /\ r.raised = "", r.raised,
                          FALSE, Len(r.names))
       /\ env' = [fail |-> fail, keeps |-> keeps]
       /\ UNCHANGED <<server, nextId, obj_tables, ents, deleted, client, window,
                      res_table, actors>>

DoNewTable == \E resource \in Resources, type \in Types : NewTable(resource, type)

DoResBuild ==
    \E keeps \in BOOLEAN :
        \E fail \in Mishaps(Len(res_build(res_table.names, server, res_table.type,
                                          NoFail(keeps)).reqs)) :
            ResBuild(fail, keeps)

DoListAll ==
    \E resource \in Resources, type \in Types, keeps \in BOOLEAN :
        \E fail \in Mishaps(Len(get_all_resource_instances(resource, type, server,
                                                           NoFail(keeps)).reqs)) :
            ListAll(resource, type, fail, keeps)

\* Create, rename and delete only
NextCRD == DoCreate \/ DoRename \/ DoDelete
SpecCRD == Init /\ [][NextCRD]_vars

\* Entity construction, rename, delete and the table operations
NextObj ==
    \/ DoCreate
    \/ DoCreateNested
    \/ DoRename
    \/ DoDelete
    \/ DoBuild
    \/ DoIterate
SpecObj == Init /\ [][NextObj]_vars

Next ==
    \/ DoCreate
    \/ DoCreateNested
    \/ DoRename
    \/ DoDelete
    \/ DoUpdate
    \/ DoBuild
    \/ DoIterate
Spec == Init /\ [][Next]_vars

\* Groups and hosts, and the children a group is given or loses.  The caller
\* keeps one variable and binds it anew with each construction.
\* the child references whose identifier differs between two records
Changed(before, after) ==
    Cardinality({i \in 1..Len(before.objects) : before.objects[i].id # after.objects[i].id})

\* What a caller hands to _req_json
Called(type, oid, url, data) == [type |-> type, oid |-> oid, url |-> url, data |-> data]

\* resp = fmc._req_json('object', type, oid, url, data)
Requested(args, rqs, ans) ==
    /\ server' = ans.server
    /\ nextId' = ans.nextId
    /\ reqs' = rqs
    /\ last' = Outcome("_req_json", 0, args, len(ans.resp) # 0,
                       req_json_raised(args.oid, args.url, args.data), FALSE, 0)
    /\ UNCHANGED <<obj_tables, ents, deleted, client, window, res_table, env, actors>>

ReqJson(type, oid, url, data, ok) ==
    Requested(Called(type, oid, url, data),
              req_json(type, oid, url, data),
              Fetch(server, nextId, req_json(type, oid, url, data), ok))

\* a payload without the key 'name'
Nameless == [id |-> 0, name |-> "", type |-> "NetworkGroup", objects |-> <<>>]

DoReqJson ==
    \E type \in ObjTypes, oid \in 0..MaxId, ok \in BOOLEAN,
       url \in {NoUrl} \cup {ObjUrl("networkgroups", i) : i \in Ids},
       data \in {Empty, Nameless} \cup FlatPayloads :
        ReqJson(type, oid, url, data, ok)

\* e = FPObject(fmc, obj=ents[src]); a constructor that raises leaves e as it
\* was.  had: the child identifiers in the record of ents[src] that changed.
Duplicated(e, src, r) ==
    /\ server' = r.made.server
    /\ nextId' = r.made.nextId
    /\ obj_tables' = r.made.tables
    /\ ents' = [ents EXCEPT ![e] = IF r.made.raised # "" THEN @ ELSE r.made.json,
                            ![src] = r.source]
    /\ reqs' = r.made.reqs
    /\ last' = Outcome("duplicate", e, ents[src].name, len(r.made.resp) # 0,
                       r.made.raised, r.made.errlog, Changed(ents[src], r.source))
    /\ UNCHANGED <<deleted, client, window, res_table, env, actors>>

Duplicate(e, src, ok) ==
    /\ e # src
    /\ ents[src].id > 0
    /\ Duplicated(e, src, FPObject_obj(obj_tables, ents[src], server, nextId, ok))

DoDuplicate == \E ok \in BOOLEAN : Duplicate(1, MaxEnt, ok)

DoBind ==
    \E data \in FlatPayloads \cup LeafPayloads("Host"), ok \in BOOLEAN :
        Create(1, data, ok)

NextKin ==
    \/ DoBind
    \/ DoAddChildren
    \/ DoRemoveChild
SpecKin == Init /\ [][NextKin]_vars

\* Duplication from another registry: the caller holds an entity of that
\* registry, whose identifiers are those of its own server.
ForeignRefs ==
    {[id |-> i, name |-> n, type |-> t] : i \in Ids, n \in Names, t \in {"Host", "NetworkGroup"}}

ForeignLists == {objs \in UNION {[1..k -> ForeignRefs] : k \in 0..MaxBatch} : Distinct(objs)}

ForeignRecords ==
    {[id |-> i, name |-> n, type |-> "NetworkGroup", objects |-> objs] :
        i \in Ids, n \in Names, objs \in ForeignLists}

InitDup ==
    /\ server = [i \in Ids |-> Dead]
    /\ nextId = 1
    /\ obj_tables = [t \in ObjTypes |-> <<>>]
    /\ ents \in {[e \in Ents |-> IF e = MaxEnt THEN obj ELSE NoEnt] : obj \in ForeignRecords}
    /\ reqs = <<>>
    /\ last = Outcome("init", 0, "", FALSE, "", FALSE, 0)
    /\ deleted = {}
    /\ client = NewClient
    /\ window = Unwatched
    /\ res_table = NoTable
    /\ env = [fail |-> 0, keeps |-> TRUE]
    /\ actors = Resting

NextDup == DoBind \/ DoDuplicate

\* Calls of _req_json on their own
NextReqJson == DoReqJson
SpecReqJson == Init /\ [][NextReqJson]_vars
SpecDup == InitDup /\ [][NextDup]_vars

\* Entities of every followed type joining and leaving a parent
NextParent ==
    \/ DoCreate
    \/ DoCreateHost
    \/ DoCreateZone
    \/ DoAddToParent
    \/ DoRemoveFromParent
SpecParent == Init /\ [][NextParent]_vars

\* ------------------------------------------------- the pace of requests
\* The methods callers pass, "" for none
Methods == METHODS \cup {"PATCH", ""}

\* The seconds that pass between two calls
Delays == {30, 31}

\* the observer's interval after d more seconds
Aged(w, d) ==
    IF w.open /\ w.age + d < RATE_WINDOW THEN [w EXCEPT !.age = @ + d] ELSE Unwatched

\* fmc._req(url, method=method)
Req(method) ==
    LET r == req(client, method)
        w == Aged(window, r.slept)
    IN /\ client' = [req_count |-> r.req_count, elapsed |-> r.elapsed, slept |-> r.slept]
       /\ window' = IF w.open /\ r.forwarded THEN [w EXCEPT !.seen = @ + 1] ELSE w
       /\ reqs' = IF r.forwarded THEN <<Request(method, NoUrl, Empty)>> ELSE <<>>
       /\ last' = Outcome("_req", 0, method, r.forwarded, r.raised, FALSE, 0)
       /\ UNCHANGED <<server, nextId, obj_tables, ents, deleted, res_table, env, actors>>

\* d seconds pass
Tick(d) ==
    /\ client' = [client EXCEPT !.elapsed = Capped(@ + d)]
    /\ window' = Aged(window, d)
    /\ UNCHANGED <<server, nextId, obj_tables, ents, reqs, last, deleted, res_table,
                 env, actors>>

\* the observer starts an interval at this instant
Watch ==
    /\ ~window.open
    /\ window' = [open |-> TRUE, age |-> 0, seen |-> 0]
    /\ UNCHANGED <<server, nextId, obj_tables, ents, reqs, last, deleted, client,
                   res_table, env, actors>>

DoReq == \E method \in Methods : Req(method)
DoTick == \E d \in Delays : Tick(d)

NextRate == DoReq \/ DoTick \/ Watch
SpecRate == Init /\ [][NextRate]_vars

\* ------------------------------------------------- actors that share _req
\* _req has no lock: its statements run one at a time, and between two of
\* them the other actor may run.  MaxSwitch bounds how often an actor is set
\* aside in the middle of a call.
Other(a) == CHOOSE b \in Actors : b # a

MayMove(a) ==
    \/ actors.pc[Other(a)] = "idle"
    \/ actors.turn = a
    \/ actors.switches < MaxSwitch

\* actor a moves from pc `from` to pc `to`
Moved(a, from, to, held, sent) ==
    /\ actors.pc[a] = from
    /\ MayMove(a)
    /\ actors' = [pc |-> [actors.pc EXCEPT ![a] = to],
                  held |-> [actors.held EXCEPT ![a] = held],
                  sent |-> sent,
                  turn |-> a,
                  switches |-> IF actors.pc[Other(a)] # "idle" /\ actors.turn # a
                               THEN actors.switches + 1
                               ELSE actors.switches]
    /\ UNCHANGED <<server, nextId, obj_tables, ents, reqs, last, deleted, window,
                   res_table, env>>

\* the test `elif self.req_count < 120` letting the ceiling itself pass
below_or_at(n) == n <= RATE_LIMIT

\* elif self.req_count < 120
below(n) == n < RATE_LIMIT

\* self.req_count += 1, the read
Load(a) ==
    /\ Moved(a, "idle", "store", client.req_count, actors.sent)
    /\ UNCHANGED client

\* self.req_count += 1, the write
Store(a) ==
    /\ Moved(a, "store", "first", 0, actors.sent)
    /\ client' = [client EXCEPT !.req_count = actors.held[a] + 1]

\* if self.req_count == 1: self.req_time = datetime.now()
First(a) ==
    IF client.req_count = 1
    THEN /\ Moved(a, "first", "forward", 0, 0)
         /\ client' = [client EXCEPT !.elapsed = 0]
    ELSE /\ Moved(a, "first", "below", 0, actors.sent)
         /\ UNCHANGED client

\* elif self.req_count < 120: pass / else:
Below(a) ==
    /\ Moved(a, "below", IF below(client.req_count) THEN "forward" ELSE "reset",
             0, actors.sent)
    /\ UNCHANGED client

\* the branch else: the sleep, self.req_count = 1, self.req_time = now
Reset(a) ==
    /\ Moved(a, "reset", "forward", 0, 0)
    /\ client' = [req_count |-> 1, elapsed |-> 0,
                  slept |-> IF client.elapsed <= RATE_WINDOW
                            THEN RATE_WINDOW - client.elapsed + 1
                            ELSE 0]

\* super(FMCClient, self)._req(*args, **kwargs)
Forward(a) ==
    /\ Moved(a, "forward", "idle", 0, actors.sent + 1)
    /\ UNCHANGED client

NextRace ==
    \/ \E a \in Actors : Load(a)
    \/ \E a \in Actors : Store(a)
    \/ \E a \in Actors : First(a)
    \/ \E a \in Actors : Below(a)
    \/ \E a \in Actors : Reset(a)
    \/ \E a \in Actors : Forward(a)
SpecRace == Init /\ [][NextRace]_vars

\* ------------------------------------------- tables built from a server
Objs == 1..MaxObj

Children(i) == {<<>>} \cup {<<j>> : j \in Objs \ {i}}
                      \cup {<<j, k>> : j \in Objs \ {i}, k \in Objs \ {i}}

ServerRecords(i) ==
    {Dead, [alive |-> TRUE, type |-> "Host", name |-> NAMES[i], objects |-> <<>>]}
    \cup {[alive |-> TRUE, type |-> "NetworkGroup", name |-> NAMES[i], objects |-> c] :
            c \in {c \in Children(i) : Len(c) = 2 => c[1] < c[2]}}

\* every child is alive and no object is its own descendant
RECURSIVE Down(_, _, _)
Down(s, S, n) ==
    IF n = 0 THEN S ELSE Down(s, S \cup UNION {Kids(s, i) : i \in S}, n - 1)

WellFormed(s) ==
    \A i \in DOMAIN s :
        /\ \A k \in Kids(s, i) : s[k].alive
        /\ i \notin Down(s, Kids(s, i), Cardinality(DOMAIN s))

\* A registry just constructed against a server that already holds objects
InitBuild ==
    /\ server \in {s \in [Objs -> UNION {ServerRecords(i) : i \in Objs}] :
                      (\A i \in Objs : s[i] \in ServerRecords(i)) /\ WellFormed(s)}
    /\ nextId = MaxObj + 1
    /\ obj_tables = [t \in ObjTypes |-> <<>>]
    /\ ents = [e \in Ents |-> NoEnt]
    /\ reqs = <<>>
    /\ last = Outcome("init", 0, "", FALSE, "", FALSE, 0)
    /\ deleted = {}
    /\ client = NewClient
    /\ window = Unwatched
    /\ res_table = NoTable
    /\ env = [fail |-> 0, keeps |-> TRUE]
    /\ actors = Resting

NextBuild == DoBuild \/ DoIterate
SpecBuild == InitBuild /\ [][NextBuild]_vars

\* Resource tables and listings of a server that holds objects
NextPage ==
    \/ DoNewTable
    \/ DoResBuild
    \/ DoListAll
SpecPage == InitBuild /\ [][NextPage]_vars

\* A resource table kept while objects come and go
NextRes ==
    \/ DoCreate
    \/ DoDelete
    \/ DoNewTable
    \/ DoResBuild
SpecRes == Init /\ [][NextRes]_vars


\* =====================================================================
\* Properties
\* =====================================================================
GroupTable == obj_tables["networkgroups"]

Pairs(d) == {<<d[i].name, d[i].id>> : i \in 1..Len(d)}

AliveOf(type) == {<<server[i].name, i>> : i \in IdsOf(server, type)}

NoDup(d) == \A i, j \in 1..Len(d) : d[i].name = d[j].name => i = j

\* C1: after every operation of a sequence of create, rename and delete on one
\* registry, starting from an empty table and an empty server, the table of a
\* type maps exactly the names of the objects alive on the server to their
\* identifiers.
C1_TableMatchesServer ==
    \A t \in ObjTypes : NoDup(obj_tables[t]) /\ Pairs(obj_tables[t]) = AliveOf(t)

\* Within one table, every child of the table's own type stands before each
\* parent that is in the table.
ChildFirst(names, s, type) ==
    \A p \in IdsOf(s, type) : \A c \in Kids(s, p) \cap IdsOf(s, type) :
        s[p].name \in Keys(names) =>
            /\ s[c].name \in Keys(names)
            /\ IndexOf(names, s[c].name) < IndexOf(names, s[p].name)

InTable(names, s, i) == [name |-> s[i].name, id |-> i] \in {names[k] : k \in 1..Len(names)}

\* C2: after build() returns normally on a table that was empty, every object
\* listed in a same-type object's "objects" array has a smaller entry index
\* than each of its parents, whatever the depth of the nesting.
C2_ChildFirstAfterBuild ==
    (last.op = "build" /\ last.raised = "" /\ last.had = 0)
        => ChildFirst(obj_tables[last.arg], server, last.arg)

\* A complete build from an empty table over a nesting of depth two whose
\* top parent the listing reaches first.
C2_Witness ==
    /\ last.op = "build" /\ last.arg = "networkgroups"
    /\ last.raised = "" /\ last.confirmed /\ last.had = 0
    /\ \E p, c, g \in IdsOf(server, "networkgroups") :
          /\ p < c /\ p < g
          /\ c \in Kids(server, p) /\ g \in Kids(server, c)
          /\ InTable(GroupTable, server, p)
          /\ InTable(GroupTable, server, c)
          /\ InTable(GroupTable, server, g)

IsPrefix(d, e) == Len(d) <= Len(e) /\ \A i \in 1..Len(d) : e[i] = d[i]

\* C4: build() leaves one entry per name, keeps every entry it finds at its
\* position with its identifier, and a second build() against the unchanged
\* server leaves the table as the first one left it.
C4_FirstSeenWins ==
    [][last'.op = "build" =>
          /\ IsPrefix(obj_tables[last'.arg], obj_tables'[last'.arg])
          /\ NoDup(obj_tables[last'.arg]) => NoDup(obj_tables'[last'.arg])
          /\ (last.op = "build" /\ last.arg = last'.arg
              /\ last.confirmed /\ last.raised = "")
                => obj_tables'[last'.arg] = obj_tables[last'.arg]]_vars

\* A build over a table that already held every entry, on a server where one
\* child has two parents.
C4_Witness ==
    /\ last.op = "build" /\ last.arg = "networkgroups"
    /\ last.raised = "" /\ last.confirmed
    /\ last.had = Len(GroupTable) /\ last.had >= 3
    /\ \E p, q, c \in IdsOf(server, "networkgroups") :
          /\ p # q
          /\ c \in Kids(server, p) /\ c \in Kids(server, q)
          /\ InTable(GroupTable, server, p)
          /\ InTable(GroupTable, server, q)
          /\ InTable(GroupTable, server, c)

\* The table an entity's operations keep up to date
TableOf(json) == obj_tables[TableType(json.type)]

\* C5: a creation payload whose name is a key of the destination table sends
\* no POST; the constructor sends one GET of the identifier stored for that
\* name, and the entity it binds has that identifier.
C5_CreateOrAdopt ==
    [][\A e \in Ents, data \in FlatPayloads, ok \in BOOLEAN :
          (Create(e, data, ok) /\ data.name \in Keys(TableOf(data)))
            => /\ reqs' = <<Request("GET",
                                    ObjUrl(TableType(data.type),
                                           Get(TableOf(data), data.name)),
                                    Empty)>>
               /\ ents'[e] # Empty => ents'[e].id = Get(TableOf(data), data.name)]_vars

\* A second entity bound to the identifier of a known name by one GET.
C5_Witness ==
    /\ last.op = "create" /\ last.confirmed
    /\ Len(reqs) = 1 /\ reqs[1].method = "GET"
    /\ ents[last.ent].id = reqs[1].url.oid
    /\ \E i \in 1..Len(GroupTable) :
          GroupTable[i] = [name |-> last.arg, id |-> ents[last.ent].id]

\* C6 (as claimed): after a confirmed rename to another name the table has no
\* entry for the old name and maps the new name to the identifier the old name
\* mapped to, and the entity keeps its identifier.
C6_RenameMovesEntry ==
    [][\A e \in Ents, n \in Names, ok \in BOOLEAN :
          (Rename(e, n, ok) /\ ents[e] # Empty /\ n # ents[e].name /\ last'.confirmed)
            => /\ ents[e].name \notin Keys(obj_tables'[TableType(ents[e].type)])
               /\ n \in Keys(obj_tables'[TableType(ents[e].type)])
               /\ ents[e].name \in Keys(TableOf(ents[e])) =>
                     Get(obj_tables'[TableType(ents[e].type)], n)
                        = Get(TableOf(ents[e]), ents[e].name)
               /\ ents'[e].id = ents[e].id]_vars

\* C7 (as claimed): a rename that fails (empty new name, or empty response to
\* the update) leaves the tables and the held record as they were and reports
\* an error.
C7_RenameFailureLeavesTable ==
    [][\A e \in Ents, n \in Names \cup {""}, ok \in BOOLEAN :
          (Rename(e, n, ok) /\ ents[e] # Empty /\ (n = "" \/ ~last'.confirmed))
            => /\ obj_tables' = obj_tables
               /\ ents'[e] = ents[e]
               /\ last'.errlog \/ last'.raised # ""]_vars

KeepOthers(entry, name) == entry.name # name

\* C8: delete() of a bound entity sends one DELETE to the entity's own URL; on
\* a non-empty response the table holds the entries it held except the one of
\* the entity's name, on an empty response the tables are unchanged.
C8_DeleteRemovesEntry ==
    [][\A e \in Ents, ok \in BOOLEAN :
          (Delete(e, ok) /\ ents[e] # Empty)
            => /\ reqs' = <<Request("DELETE", SelfUrl(ents[e]), Empty)>>
               /\ last'.confirmed =>
                     obj_tables' =
                        [obj_tables EXCEPT ![TableType(ents[e].type)] =
                            SelectSeq(@, LAMBDA entry : KeepOthers(entry, ents[e].name))]
               /\ ~last'.confirmed => obj_tables' = obj_tables]_vars

\* A confirmed delete that took one of two entries out of the table.
C8_Witness ==
    /\ last.op = "delete" /\ last.confirmed /\ last.raised = ""
    /\ Len(reqs) = 1 /\ reqs[1].method = "DELETE"
    /\ reqs[1].url = SelfUrl(ents[last.ent])
    /\ Len(GroupTable) = 1
    /\ last.arg \notin Keys(GroupTable)
    /\ ~IsAlive(server, ents[last.ent].id)

\* C3 (as claimed): in every reachable state the order of each names cache is a
\* dependency order: the entry of a same-type child precedes the entry of
\* every parent that lists it on the server.
C3_DependencyOrder ==
    \A t \in ObjTypes : \A i, j \in 1..Len(obj_tables[t]) :
        (/\ IsAlive(server, obj_tables[t][i].id)
         /\ IsAlive(server, obj_tables[t][j].id)
         /\ obj_tables[t][j].id \in Kids(server, obj_tables[t][i].id))
            => j < i

\* C9 (as claimed): once delete() was confirmed for an entity, every further
\* delete(), update() or rename() on it sends no request and fails with an
\* already-deleted error.
C9_DeletedEntityRefuses ==
    [][\A e \in deleted :
          (last'.ent = e /\ last'.op \in {"delete", "update", "rename"})
            => reqs' = <<>> /\ last'.raised = "AlreadyDeleted"]_vars

\* C10 (as claimed): update(payload) of a bound entity sends one PUT of the
\* payload to the entity's own URL; a non-empty response becomes the held
\* record, an empty response leaves the held record and raises an error.
C10_UpdateSignalsFailure ==
    [][\A e \in Ents : \A ok \in BOOLEAN :
         \A data \in (IF ents[e].id > 0 THEN UpdatePayloads(ents[e]) ELSE {}) :
            Update(e, data, ok)
              => /\ reqs' = <<Request("PUT", SelfUrl(ents[e]), data)>>
                 /\ last'.confirmed =>
                       ents'[e] = Transport(server, nextId, reqs'[1], ok).resp
                 /\ ~last'.confirmed => ents'[e] = ents[e] /\ last'.raised # ""]_vars

\* a request that changes the server
IsWrite(rq) == rq.method # "GET"

\* a name that one of the allowed child-type tables of a group type holds
Resolves(type, name) ==
    /\ type \in GROUP_OBJECT_TYPES
    /\ \E t \in Elems(CHILD_OBJECT_TYPES[type]) : name \in Keys(NamesOf(obj_tables, t))

\* the descriptor of the entry that an allowed child-type table holds for name
IsChildEntry(type, name, obj) ==
    \E t \in Elems(CHILD_OBJECT_TYPES[type]) \cap ObjTypes :
        /\ name \in Keys(obj_tables[t])
        /\ obj = [id |-> Get(obj_tables[t], name), name |-> name, type |-> RecType(t)]

\* C11: one call of add_children sends at most one write.  When a given name
\* is in none of the allowed child-type tables no write is sent, wherever the
\* name stands in the batch.  When every name is in such a table and no fetch
\* fails (the call raises nothing), the last request is the only write: a PUT
\* to the entity's own URL of the refreshed record with one descriptor per
\* given name appended to its "objects" list.
C11_AddChildrenOneWrite ==
    [][last'.op = "add_children" =>
          LET json == ents[last'.ent]
              names == last'.arg
              own == TableType(json.type)
              writes == SelectSeq(reqs', IsWrite)
              fresh == Transport(server, nextId, reqs'[1], TRUE).resp
              put == reqs'[Len(reqs')]
          IN /\ Len(writes) <= 1
             /\ (\E i \in DOMAIN names : ~Resolves(own, names[i])) => writes = <<>>
             /\ ((\A i \in DOMAIN names : Resolves(own, names[i])) /\ last'.raised = "")
                 => /\ writes = <<put>>
                    /\ put.method = "PUT" /\ put.url = SelfUrl(json)
                    /\ [put.data EXCEPT !.objects = <<>>] = [fresh EXCEPT !.objects = <<>>]
                    /\ Len(put.data.objects) = Len(fresh.objects) + Len(names)
                    /\ SubSeq(put.data.objects, 1, Len(fresh.objects)) = fresh.objects
                    /\ \A i \in DOMAIN names :
                          IsChildEntry(own, names[i],
                                       put.data.objects[Len(fresh.objects) + i])]_vars

\* A batch of two names, each fetched, written by one PUT with two descriptors.
C11_Witness ==
    /\ last.op = "add_children" /\ last.raised = ""
    /\ Len(reqs) = 4
    /\ reqs[4].method = "PUT" /\ reqs[4].url = SelfUrl(ents[last.ent])
    /\ Len(reqs[4].data.objects) = 2
    /\ reqs[4].data.objects[1].name # reqs[4].data.objects[2].name

\* C12: remove_child(name) first sends the GET of the entity's own URL.  When
\* that refresh is answered and the name is among the "objects" entries of the
\* refreshed record, one PUT follows, of the refreshed record with the entries
\* of that name left out of "objects"; when the name is not among them the
\* call reports an error (a logged error or an exception) and sends no write.
C12_RemoveChild ==
    [][last'.op = "remove_child" =>
          LET json == ents[last'.ent]
              refresh == Request("GET", SelfUrl(json), Empty)
              fresh == Transport(server, nextId, refresh, TRUE).resp
              kept == SelectSeq(fresh.objects,
                                LAMBDA obj_child : KeepOthers(obj_child, last'.arg))
          IN /\ Len(reqs') >= 1 /\ reqs'[1] = refresh
             /\ last'.raised # "AttributeError" =>
                   IF kept # fresh.objects
                   THEN reqs' = <<refresh,
                                  Request("PUT", SelfUrl(json),
                                          [fresh EXCEPT !.objects = kept])>>
                   ELSE /\ reqs' = <<refresh>>
                        /\ last'.errlog \/ last'.raised # ""]_vars

\* A group that lost its only child by a confirmed remove_child.
C12_Witness ==
    /\ last.op = "remove_child" /\ last.confirmed /\ last.raised = ""
    /\ Len(reqs) = 2 /\ reqs[2].method = "PUT"
    /\ reqs[2].data.objects = <<>>
    /\ server[ents[last.ent].id].objects = <<>>
    /\ \E i \in Ids : IsAlive(server, i) /\ server[i].name = last.arg

\* the group types that list a type among their children
ParentsOf(type) == {p \in GROUP_OBJECT_TYPES : type \in Elems(CHILD_OBJECT_TYPES[p])}

\* C13 (as claimed): no object type is listed under two group types, and
\* add_to_parent / remove_from_parent on an entity whose type no group type
\* lists send no request and end with the error that says the operation is
\* inapplicable.
C13_SingleParentType ==
    [][/\ \A t \in OBJECT_TYPES : Cardinality(ParentsOf(t)) <= 1
       /\ (/\ last'.op \in {"add_to_parent", "remove_from_parent"}
           /\ ParentsOf(TableType(ents[last'.ent].type)) = {})
             => reqs' = <<>> /\ last'.raised = "Inapplicable"]_vars

\* C14 (as claimed): at most 120 requests are forwarded to the transport within
\* any interval [t, t + 60 seconds).
C14_RollingWindow == window.open => window.seen <= RATE_LIMIT

\* C15 (as claimed): a call of _req sleeps only when 120 calls were already
\* made in the running rate-limit window, and that call, made within 60
\* seconds of the start of the window, sleeps until the window has passed and
\* leaves the counter reset.  (A step that is a call of _req changes req_count.)
C15_SleepAt121 ==
    [][client'.req_count # client.req_count =>
          /\ client'.slept > 0 => client.req_count >= RATE_LIMIT
          /\ (client.req_count >= RATE_LIMIT /\ client.elapsed <= RATE_WINDOW)
                => /\ client.elapsed + client'.slept > RATE_WINDOW
                   /\ client'.req_count = 1]_vars

\* C20: a call of _req with a method other than GET, POST, PUT, DELETE raises
\* FMCError and nothing is forwarded to the transport; a call with one of the
\* four methods raises nothing and forwards that one request.
C20_MethodChecked ==
    [][client'.req_count # client.req_count /\ last'.arg # "" =>
          IF last'.arg \in METHODS
          THEN last'.raised = "" /\ reqs' = <<Request(last'.arg, NoUrl, Empty)>>
          ELSE last'.raised = "FMCError" /\ reqs' = <<>>]_vars

\* A PATCH that was refused after a PUT that was forwarded.
C20_Witness ==
    /\ last.op = "_req" /\ last.arg = "PATCH"
    /\ last.raised = "FMCError" /\ reqs = <<>>
    /\ client.req_count = 2

\* ------------------------------------------------------------ pagination
\* the page that answered the k-th request of a call that pages a resource
PageAt(rqs, k, s, envt) ==
    Page(Progress(<<>>, SubSeq(rqs, 1, k), ""), s, rqs[k].url, envt)

Exhausted(resp) == ~resp.ok \/ resp.count = 0 \/ resp.next = NoUrl

\* C16: FPResourceTable.build() and get_all_resource_instances send no request
\* after a response that is empty, reports paging.count = 0 or has no "next"
\* link, and the items of an empty or zero-count response are left out: the
\* table holds, and the generator has yielded, the items of the pages before
\* that response and no others.
C16_PagingStops ==
    [][last'.op \in {"res_build", "list_all"} =>
         \A k \in 1..Len(reqs') :
             LET resp == PageAt(reqs', k, server, env')
                 before == SubSeq(Listing(server, last'.arg), 1, reqs'[k].url.offset)
             IN /\ Exhausted(resp) => k = Len(reqs')
                /\ (~resp.ok \/ resp.count = 0) =>
                       /\ last'.op = "list_all" => last'.had = Len(before)
                       /\ last'.op = "res_build" =>
                              res_table'.names = set_items(res_table.names, before, 1)]_vars

\* a build met a second page that reports count 0 and carries items
C16_Witness ==
    /\ last.op = "res_build"
    /\ Len(reqs) = 2
    /\ env.fail = 0 - 2
    /\ PageAt(reqs, 2, server, env).items # <<>>
    /\ Len(res_table.names) = PageLimit

\* C17 (as claimed): every listing request sent while paginating, by a table
\* build and by iteration through get_all_resource_instances, carries the
\* expanded flag, also when the "next" link of the server omits it.
C17_ExpandedKept ==
    last.op \in {"res_build", "list_all"} =>
        \A k \in 1..Len(reqs) : reqs[k].url.oid = 0 => reqs[k].url.expanded

\* ----------------------------------------------------- FPResourceTable.build
\* C18 (as claimed): FPResourceTable.build() is first-write-wins: a name that
\* is a key of the cache before the build keeps the identifier stored for it.
C18_FirstWriteWins ==
    [][last'.op = "res_build" =>
         \A i \in 1..Len(res_table.names) :
             /\ res_table.names[i].name \in Keys(res_table'.names)
             /\ Get(res_table'.names, res_table.names[i].name) = res_table.names[i].id]_vars

\* ------------------------------------------------- resource and type checks
Known(resource, type) ==
    resource \in RESOURCE_TYPES /\ type \in RESOURCE_TREE[resource]

\* C19: FPResourceTable(fmc, resource, type) and
\* get_all_resource_instances(resource, type) with a resource outside
\* RESOURCE_TYPES, or a type outside RESOURCE_TREE[resource], raise FMCError
\* before any request is sent, and no table and no listing results.
C19_RejectedBeforeRequest ==
    [][\A resource \in Resources, type \in Types :
           ~Known(resource, type) =>
               /\ NewTable(resource, type) =>
                      /\ last'.raised = "FMCError"
                      /\ reqs' = <<>>
                      /\ res_table' = res_table
               /\ (\E keeps \in BOOLEAN : ListAll(resource, type, 0, keeps)) =>
                      /\ last'.raised = "FMCError"
                      /\ reqs' = <<>>
                      /\ last'.had = 0]_vars

\* a table was held when a construction with an unknown type was rejected
C19_Witness ==
    /\ last.op = "new_table"
    /\ last.arg = "gadgets"
    /\ last.raised = "FMCError"
    /\ res_table # NoTable

\* ------------------------------------------------- a child that is not fetched
\* the objects of the server that list identifier oid among their children
ParentsOnServer(s, oid) ==
    {p \in DOMAIN s : s[p].alive /\ \E i \in 1..Len(s[p].objects) : s[p].objects[i] = oid}

\* the last request of the build was the fetch of a child by identifier and
\* got an empty response
ChildFetchFailed(type, rqs, keeps) ==
    /\ Len(rqs) > 0
    /\ rqs[Len(rqs)].url.oid # 0
    /\ Build(type, Len(rqs), keeps)

\* C21: a build in which the fetch of a nested same-type child by identifier
\* returns an empty response ends with an exception, and inserts no parent of
\* that child while the child has no entry.
C21_BuildFailsFast ==
    [][last'.op = "build" =>
         \A keeps \in BOOLEAN :
             ChildFetchFailed(last'.arg, reqs', keeps) =>
                 /\ last'.raised # ""
                 /\ \A p \in ParentsOnServer(server, reqs'[Len(reqs')].url.oid) :
                        server[p].name \in Keys(obj_tables'[last'.arg]) =>
                            \/ server[p].name \in Keys(obj_tables[last'.arg])
                            \/ server[reqs'[Len(reqs')].url.oid].name
                                   \in Keys(obj_tables'[last'.arg])]_vars

\* a build stopped at the fetch of a child, after entries were inserted
C21_Witness ==
    /\ last.op = "build"
    /\ last.raised = "AttributeError"
    /\ ~last.confirmed
    /\ reqs[Len(reqs)].url.oid # 0
    /\ Len(obj_tables[last.arg]) > last.had

\* ------------------------------------------------------- FPObject(obj=E)
\* the child reference is stored in the destination table of its type
Stored(tables, ref) == ref.name \in Keys(tables[TableType(ref.type)])

\* rq is the create of obj in the registry with these tables
IsCreateOf(rq, obj, tables) ==
    /\ rq.method = "POST"
    /\ rq.url = ListUrl(TableType(obj.type), 0, FALSE)
    /\ rq.data.id = 0
    /\ rq.data.name = obj.name
    /\ rq.data.type = obj.type
    /\ Len(rq.data.objects) = Len(obj.objects)
    /\ \A i \in 1..Len(obj.objects) :
           /\ rq.data.objects[i].name = obj.objects[i].name
           /\ rq.data.objects[i].type = obj.objects[i].type
           /\ Stored(tables, obj.objects[i])
           /\ rq.data.objects[i].id =
                  Get(tables[TableType(obj.objects[i].type)], obj.objects[i].name)

\* no create: the identifier stored for the name of obj is fetched
IsAdoptionOf(rqs, obj, tables) ==
    rqs = <<Request("GET",
                    ObjUrl(TableType(obj.type), Get(tables[TableType(obj.type)], obj.name)),
                    Empty)>>

\* C22 (as claimed): FPObject(obj=E) for an E whose name is not in the
\* destination table sends one create, whose payload is E's record without
\* identifier and with every child identifier taken from the destination
\* table of the child's type; for an E whose name is in the table it sends no
\* create and fetches the stored identifier.  E is ents[MaxEnt].
C22_DuplicateCreates ==
    [][last'.op = "duplicate" =>
         IF Stored(obj_tables, ents[MaxEnt])
         THEN IsAdoptionOf(reqs', ents[MaxEnt], obj_tables)
         ELSE Len(reqs') = 1 /\ IsCreateOf(reqs'[1], ents[MaxEnt], obj_tables)]_vars

\* C22 (amended): as claimed, for an E of which every child's name is in the
\* destination table of that child's type.
C22_DuplicateCreatesResolved ==
    [][last'.op = "duplicate" =>
         IF Stored(obj_tables, ents[MaxEnt])
         THEN IsAdoptionOf(reqs', ents[MaxEnt], obj_tables)
         ELSE (\A i \in 1..Len(ents[MaxEnt].objects) :
                  Stored(obj_tables, ents[MaxEnt].objects[i])) =>
                 Len(reqs') = 1 /\ IsCreateOf(reqs'[1], ents[MaxEnt], obj_tables)]_vars

\* a create was sent for an E with a child whose identifier had to change
C22_Witness ==
    /\ last.op = "duplicate"
    /\ Len(reqs) = 1
    /\ reqs[1].method = "POST"
    /\ Len(reqs[1].data.objects) > 0
    /\ last.confirmed
    /\ last.had > 0

\* C28 (as claimed): FPObject(obj=E) leaves the record E holds unchanged,
\* the identifiers of its child references included, whether the duplicate is
\* created or an existing object is adopted.  E is ents[MaxEnt].
C28_SourceUnchanged ==
    [][last'.op = "duplicate" => ents'[MaxEnt] = ents[MaxEnt]]_vars

\* ---------------------------------------------------------- FMC._req_json
\* C23 (as claimed): one call of _req_json sends at most one request: a GET of
\* the identifier's URL when an identifier is given, otherwise a GET of the
\* given URL, otherwise a POST of the payload to the collection URL of the
\* type; with none of the three it sends nothing and returns an empty result.
C23_OneRequest ==
    last.op = "_req_json" =>
        /\ Len(reqs) <= 1
        /\ last.arg.oid # 0 =>
               reqs = <<Request("GET", ObjUrl(last.arg.type, last.arg.oid), Empty)>>
        /\ (last.arg.oid = 0 /\ last.arg.url # NoUrl) =>
               reqs = <<Request("GET", last.arg.url, Empty)>>
        /\ (last.arg.oid = 0 /\ last.arg.url = NoUrl /\ last.arg.data # Empty) =>
               reqs = <<Request("POST", ListUrl(last.arg.type, 0, FALSE), last.arg.data)>>
        /\ (last.arg.oid = 0 /\ last.arg.url = NoUrl /\ last.arg.data = Empty) =>
               reqs = <<>> /\ ~last.confirmed /\ last.raised = ""

\* ----------------------------------------------------- the end of a build
RECURSIVE Fetches(_, _, _)
\* the fetches by identifier that the descent through the children objs makes:
\* one for each same-type child, and those of the descent from that child
Fetches(s, type, objs) ==
    IF objs = <<>>
    THEN 0
    ELSE Fetches(s, type, Tail(objs))
         + IF TableType(s[Head(objs)].type) = type
           THEN 1 + Fetches(s, type, s[Head(objs)].objects)
           ELSE 0

RECURSIVE FetchesOfAll(_, _, _)
FetchesOfAll(s, type, items) ==
    IF items = <<>>
    THEN 0
    ELSE Fetches(s, type, s[Head(items).id].objects) + FetchesOfAll(s, type, Tail(items))

\* the pages of a listing of n items; an empty listing is one page
PagesOf(n) == IF n = 0 THEN 1 ELSE (n + PageLimit - 1) \div PageLimit

\* C24: on a server whose nesting is finite and acyclic, a build that every
\* request of which is answered in full ends after finitely many requests (one
\* per page of the listing and one per nested same-type reference on every
\* path below a listed item), without exception, and then every object of
\* the type on the server, so every listed item and every nested same-type
\* descendant, has an entry in the table.
C24_BuildTerminatesComplete ==
    (last.op = "build" /\ last.confirmed) =>
        /\ last.raised = ""
        /\ Len(reqs) = PagesOf(Len(Listing(server, last.arg)))
                         + FetchesOfAll(server, last.arg, Listing(server, last.arg))
        /\ \A i \in IdsOf(server, last.arg) :
               server[i].name \in Keys(obj_tables[last.arg])

\* a build of two pages over a nesting two levels deep
C24_Witness ==
    /\ last.op = "build"
    /\ last.confirmed
    /\ Len(Listing(server, last.arg)) > PageLimit
    /\ \E i, j, k \in IdsOf(server, last.arg) : j \in Kids(server, i) /\ k \in Kids(server, j)

\* ------------------------------------------------------- the ceiling of _req
\* C25: a call of _req that finds the counter at the ceiling (the counter it
\* has just incremented is not below RATE_LIMIT) sleeps RATE_WINDOW - elapsed
\* + 1 seconds when at most RATE_WINDOW seconds have passed since the start of
\* the window and does not sleep otherwise; either way it leaves the counter
\* at 1 and the window started anew; between calls the counter lies in
\* 0..RATE_LIMIT - 1.
C25_CeilingReset ==
    [][client'.req_count # client.req_count =>
          /\ client.req_count + 1 >= RATE_LIMIT =>
                 /\ client'.slept = IF client.elapsed <= RATE_WINDOW
                                     THEN RATE_WINDOW - client.elapsed + 1
                                     ELSE 0
                 /\ client'.req_count = 1
                 /\ client'.elapsed = 0
          /\ client'.req_count \in 0..(RATE_LIMIT - 1)]_vars

\* a call at the ceiling, half a window after its start, has slept
C25_Witness == client.req_count = 1 /\ client.slept = RATE_WINDOW - 30 + 1

\* ------------------------------------------------- _req without a lock
AllIdle == \A a \in Actors : actors.pc[a] = "idle"

\* C26: as long as no actor was set aside in the middle of _req, the counter
\* between calls is the number of requests forwarded since the window began,
\* and that number stays below the ceiling; the witness is an execution with
\* interleaved calls after which more requests were forwarded in one window
\* than the counter shows, and as many as the ceiling.
C26_SerialCallsCounted ==
    (AllIdle /\ actors.switches = 0) =>
        actors.sent = client.req_count /\ actors.sent < RATE_LIMIT

\* two calls interleaved: an increment was lost, and the window holds as many
\* requests as the ceiling
C26_Witness ==
    /\ AllIdle
    /\ actors.switches > 0
    /\ actors.sent > client.req_count
    /\ actors.sent >= RATE_LIMIT

\* ------------------------------------------------- update and the caches
\* the operations that write the names of a table
CacheWriters == {"create", "rename", "delete", "build", "iterate"}

\* C27: update(data) leaves the names of every table as they were, whatever
\* the payload and the answer, a payload with another name included; a step
\* that changes the names of a table is a construction, a build, an
\* iteration, a rename or a delete.
C27_UpdateKeepsCaches ==
    [][/\ last'.op = "update" => obj_tables' = obj_tables
       /\ obj_tables' # obj_tables => last'.op \in CacheWriters]_vars

\* a confirmed update gave the entity another name, and the table still has
\* the entity's id under the name it had before
C27_Witness ==
    /\ last.op = "update"
    /\ last.confirmed
    /\ ents[last.ent].name = last.arg
    /\ \E k \in Keys(obj_tables[TableType(ents[last.ent].type)]) :
          /\ k # ents[last.ent].name
          /\ Get(obj_tables[TableType(ents[last.ent].type)], k) = ents[last.ent].id


====
